---- MODULE Spec2Model ----
(***************************************************************************)
(* Model of CVECrawler (src/cve/CVECrawler.py): the bulk catch-up loop     *)
(* init_data_population, the incremental update maintain_data, the         *)
(* scheduler run, and the three files the crawler keeps under its storage  *)
(* root (.index.txt, missing_indexes.txt, .last_timestamp.txt).            *)
(*                                                                         *)
(* The crawler is one sequential process; pc is its position.  The process *)
(* can be stopped from outside at any position (Stop) and started again    *)
(* (Run); a stop loses every in-memory variable and keeps the files.       *)
(* A file opened with mode 'w' is truncated by open() and receives its     *)
(* content when the with-block closes it, so a write is two steps and a    *)
(* stop between them leaves an empty file.                                 *)
(*                                                                         *)
(* The remote source is the environment: it answers a bulk request with a  *)
(* non-200 status, an error, or status 200 echoing the requested           *)
(* startIndex together with totalResults; it answers a delta request with  *)
(* items whose timestamp lies inside the requested window.                 *)
(***************************************************************************)
EXTENDS Integers, Sequences, FiniteSets, TLC

\* ---------------------------------------------------------------- bounds
MaxPages == 2        \* requests can fail only while index < MaxPages pages
MaxTotal == 3        \* totalResults is drawn from {0, 1500, .. 1500*MaxTotal}
ItemsPerPage == 1    \* items carried by one page of the bulk crawl
MaxChanges == 2      \* items carried by one delta response
MaxTime == 1         \* clock readings are 0..MaxTime
MaxStops == 1        \* number of external stops of the process

MaxPersists == 3     \* calls of save_data for one identifier
MaxVersions == 2     \* different records with one identifier
MaxRefs == 2         \* URLs in one reference list
MaxWidth == 7        \* digits of the sequence part of an identifier

\* ------------------------------------------------------ program constants
retries_for_request == 9
PadWidth == 6

\* values for the parts of an identifier
Years == {1999, 2024}
SeqDigits == {0, 1, 9}

\* a record that has not been saved, a path that has not been resolved
NotStored == [saved |-> FALSE, hasRefs |-> FALSE, refs |-> <<>>]
NoPath == [dir |-> <<>>, name |-> <<>>]

Modes == {"info", "changes"}

EntriesForRequest(m) == IF m = "info" THEN 2000 ELSE 5000

\* ------------------------------------------------------------------ state
VARIABLES
  mode,            \* self.mode
  totalResults,    \* the remote source's totalResults
  pc,              \* position of the process
  index,           \* init_data_population: index
  actual_retries,  \* init_data_population: actual_retries
  is_exception_or_too_many_request,
  batch,           \* the json_list save_wrapper iterates over
  saveIdx,         \* number of items of batch save_wrapper has handled
  now,             \* maintain_data: now
  timestamp,       \* maintain_data: timestamp (content read from the file)
  last_timestamp,  \* maintain_data: last_timestamp
  clock,           \* last reading of datetime.datetime.now()
  indexFile,       \* .index.txt
  missingFile,     \* missing_indexes.txt, one line per element
  tsFile,          \* .last_timestamp.txt
  persisted,       \* identifiers whose record file has been written
  \* history variables
  stops,           \* number of stops so far
  inBulk,          \* the position belongs to init_data_population
  runCursor,       \* startIndex of the most recent bulk request
  runFails,        \* failed bulk requests at runCursor since the last other outcome
  clean,           \* no failed iteration and no stop so far
  startCursor,     \* index loaded by the first init_data_population
  trace,           \* startIndex of each bulk request issued while clean
  saveFailedAt,    \* cursor of the latest persistence failure of this process, or -1
  crashCursor,     \* startIndex in flight when the process was last stopped, or -1
  firstRequest,    \* no bulk request of this process has completed yet
  requested,       \* every startIndex a bulk request was issued with
  mOutcome,        \* outcome of the latest maintain_data call of this process
  tsAtCall,        \* content of .last_timestamp.txt when maintain_data was called
  tsReplaced,      \* content of .last_timestamp.txt before its latest truncation
  sleepKind,       \* the sleep taken since the latest request or update was answered
  bulkCalls,       \* calls of init_data_population by this process
  bulkDone,        \* init_data_population of this process has returned
  idxReplaced,     \* content of .index.txt before its latest truncation by this process
  reqsAtCursor,    \* bulk requests this process has issued in a row with one startIndex
  tsAtRun,         \* content of .last_timestamp.txt when the process was started
  maintainCalls,   \* calls of maintain_data by this process, counted up to 2
  \* save_data on the record file of one identifier
  recFile,         \* the lines of <ID>.json or <ID>.jsonl
  persistLog,      \* history: the records save_data was called with, in order
  \* save_wrapper on one item in info mode
  refPc,           \* position inside save_wrapper for the item
  refCount,        \* number of URLs in the item's reference list
  malformed,       \* the reference list cannot be read (lines 125-126 raise)
  badId,           \* the item's identifier cannot be resolved to a path
  read_references, \* fetch_and_add_references: read_references
  ext_ref_id,      \* fetch_and_add_references: ext_ref_id
  responses,       \* history: the answer to each reference fetch, in order
  stored,          \* what save_data has written for the item
  \* get_cve_path_and_filename
  pathPc,          \* number of resolutions done for the identifier
  pathYear,        \* split_cve[1]
  pathSeq,         \* split_cve[2], a digit string
  path1,           \* result of the first resolution
  path2,           \* result of the second resolution
  dirs             \* directories created by os.makedirs

memVars == <<pc, index, actual_retries, is_exception_or_too_many_request,
             batch, saveIdx, now, timestamp, last_timestamp>>
diskVars == <<indexFile, missingFile, tsFile, persisted>>
envVars == <<mode, totalResults, clock>>
histVars == <<stops, inBulk, runCursor, runFails, clean, startCursor, trace,
              saveFailedAt, crashCursor, firstRequest, requested,
              mOutcome, tsAtCall, tsReplaced>>
loopVars == <<sleepKind, bulkCalls, bulkDone, idxReplaced, reqsAtCursor, tsAtRun,
              maintainCalls>>
storeVars == <<recFile, persistLog>>
refVars == <<refPc, refCount, malformed, badId, read_references, ext_ref_id, responses,
             stored>>
pathVars == <<pathPc, pathYear, pathSeq, path1, path2, dirs>>
funVars == <<storeVars, refVars, pathVars>>
mainVars == <<memVars, diskVars, envVars, histVars, loopVars>>
vars == <<mainVars, funVars>>

\* ------------------------------------------------------------------ files
NoFile == [exists |-> FALSE, content |-> <<>>]
Truncated == [exists |-> TRUE, content |-> <<>>]
FileWith(c) == [exists |-> TRUE, content |-> c]

\* str(index): the decimal digits of a natural number
RECURSIVE Str(_)
Str(n) == IF n < 10 THEN <<n>> ELSE Append(Str(n \div 10), n % 10)

\* int(s) for a non-empty digit string
RECURSIVE ParseInt(_)
ParseInt(s) == IF Len(s) = 1 THEN s[1]
               ELSE 10 * ParseInt(SubSeq(s, 1, Len(s) - 1)) + s[Len(s)]

\* variant: the cursor file is never read, the crawl starts at 0
ReadIndex_Zero(f) == 0

\* lines 56-60: int(file.read().strip()), any exception gives 0
ReadIndex(f) == IF f.exists /\ f.content # <<>> THEN ParseInt(f.content) ELSE 0

E == EntriesForRequest(mode)

\* the failure branches are cut off once the cursor has passed MaxPages pages
CanFail == index < MaxPages * E

\* ----------------------------------------------------------- environment
Totals == {1500 * k : k \in 0..MaxTotal}

\* the items of the page at startIndex c
PageItems(c) == [k \in 1..ItemsPerPage |-> [id |-> <<c, k>>]]

\* one item of a delta response for the window [from, to]
DeltaItem(m, k, t, p) ==
  IF m = "info" THEN [id |-> <<-1, k>>, lastModified |-> t, published |-> p]
  ELSE [id |-> <<-1, k>>, created |-> t]

WindowStart(ts) == IF ts = <<>> THEN 0 ELSE ts[1]

\* the non-empty delta responses for the window [from, to]
DeltaResponses(m, from, to) ==
  UNION { { [k \in 1..n |-> DeltaItem(m, k, f[k], 0)] : f \in [1..n -> from..to] }
          : n \in 1..MaxChanges }

\* ------------------------------------------------------------- save_data
\* lines 174-182: the record file of the item's identifier is written
save_data(ps, item) == ps \cup {item.id}

\* variant: the timestamp of the first item of the response
LastTimestamp_First(m, items) ==
  IF m = "info" THEN <<items[1].lastModified>> ELSE <<items[1].created>>

\* variant: the publication date instead of the modification date
LastTimestamp_Published(m, items) ==
  IF m = "info" THEN <<items[Len(items)].published>>
  ELSE <<items[Len(items)].created>>

\* lines 211-214: the timestamp field of the last item of the response
LastTimestamp(m, items) ==
  IF m = "info" THEN <<items[Len(items)].lastModified>>
  ELSE <<items[Len(items)].created>>

\* ------------------------------------------------------------------- Init
Init ==
  /\ mode \in Modes
  /\ totalResults \in Totals
  /\ pc = "stopped"
  /\ index = 0
  /\ actual_retries = 0
  /\ is_exception_or_too_many_request = FALSE
  /\ batch = <<>>
  /\ saveIdx = 0
  /\ now = 0
  /\ timestamp = <<>>
  /\ last_timestamp = <<>>
  /\ clock = 0
  /\ indexFile \in {NoFile, FileWith(Str(0))}
  /\ missingFile = <<>>
  /\ tsFile = NoFile
  /\ persisted = {}
  /\ stops = 0
  /\ inBulk = FALSE
  /\ runCursor = -1
  /\ runFails = 0
  /\ clean = TRUE
  /\ startCursor = -1
  /\ trace = <<>>
  /\ saveFailedAt = -1
  /\ crashCursor = -1
  /\ firstRequest = TRUE
  /\ requested = {}
  /\ mOutcome = "none"
  /\ tsAtCall = <<>>
  /\ tsReplaced = <<>>
  /\ sleepKind = "none"
  /\ bulkCalls = 0
  /\ bulkDone = FALSE
  /\ idxReplaced = <<>>
  /\ reqsAtCursor = 0
  /\ tsAtRun = <<>>
  /\ maintainCalls = 0
  /\ recFile = <<>>
  /\ persistLog = <<>>
  /\ refPc = "none"
  /\ refCount = 0
  /\ malformed = FALSE
  /\ badId = FALSE
  /\ read_references = <<>>
  /\ ext_ref_id = 0
  /\ responses = <<>>
  /\ stored = NotStored
  /\ pathPc = 0
  /\ pathYear = 0
  /\ pathSeq = <<>>
  /\ path1 = NoPath
  /\ path2 = NoPath
  /\ dirs = {}

\* --------------------------------------------------- history bookkeeping
Min(a, b) == IF a < b THEN a ELSE b

\* a bulk request at the current cursor has failed
NoteFailure ==
  /\ runCursor' = index
  /\ runFails' = IF runCursor = index THEN Min(runFails + 1, retries_for_request) ELSE 1
  /\ clean' = FALSE

\* a bulk request at the current cursor got another outcome than failure
NoteSuccess ==
  /\ runCursor' = index
  /\ runFails' = 0
  /\ clean' = clean

\* a bulk request has been answered
NoteAnswered ==
  /\ firstRequest' = FALSE
  /\ crashCursor' = -1

\* ------------------------------------------------- run, lines 39-43, 55-65
Run ==
  /\ pc = "stopped"
  /\ index' = ReadIndex(indexFile)
  /\ actual_retries' = 0
  /\ pc' = "open_index"
  /\ inBulk' = TRUE
  /\ firstRequest' = TRUE
  /\ startCursor' = IF stops = 0 THEN ReadIndex(indexFile) ELSE startCursor
  /\ UNCHANGED <<is_exception_or_too_many_request, batch, saveIdx, now, timestamp,
                 last_timestamp, diskVars, envVars, stops, runCursor, runFails, clean,
                 trace, saveFailedAt, crashCursor, requested, mOutcome,
                 tsAtCall, tsReplaced>>
  /\ bulkCalls' = bulkCalls + 1
  /\ bulkDone' = FALSE
  /\ sleepKind' = "none"
  /\ idxReplaced' = <<>>
  /\ reqsAtCursor' = 0
  /\ tsAtRun' = tsFile.content
  /\ maintainCalls' = 0
  /\ UNCHANGED funVars

\* ------------------------------------ init_data_population, lines 66-108
\* line 67: open(.index.txt, 'w') truncates the file
OpenIndex ==
  /\ pc = "open_index"
  /\ indexFile' = Truncated
  /\ pc' = "write_index"
  /\ UNCHANGED <<index, actual_retries, is_exception_or_too_many_request, batch,
                 saveIdx, now, timestamp, last_timestamp, missingFile, tsFile,
                 persisted, envVars, histVars>>
  /\ idxReplaced' = IF indexFile.content # <<>> THEN indexFile.content ELSE idxReplaced
  /\ UNCHANGED <<sleepKind, bulkCalls, bulkDone, reqsAtCursor, tsAtRun, maintainCalls>>
  /\ UNCHANGED funVars

\* variant: the checkpoint holds the offset of the following page
IndexToWrite_NextPage(i) == Str(i + EntriesForRequest(mode))

\* the cursor value written by line 68
IndexToWrite(i) == Str(i)

\* lines 68-75: the cursor is written and closed, then the request is issued
WriteIndex ==
  /\ pc = "write_index"
  /\ indexFile' = FileWith(IndexToWrite(index))
  /\ is_exception_or_too_many_request' = FALSE
  /\ pc' = "request"
  /\ requested' = requested \cup {index}
  /\ trace' = IF clean THEN Append(trace, index) ELSE trace
  /\ UNCHANGED <<index, actual_retries, batch, saveIdx, now, timestamp,
                 last_timestamp, missingFile, tsFile, persisted, envVars, stops,
                 inBulk, runCursor, runFails, clean, startCursor, saveFailedAt, crashCursor, firstRequest, mOutcome, tsAtCall,
                 tsReplaced>>
  /\ reqsAtCursor' = IF ~firstRequest /\ runCursor = index
                     THEN Min(reqsAtCursor + 1, retries_for_request + 1) ELSE 1
  /\ UNCHANGED <<sleepKind, bulkCalls, bulkDone, idxReplaced, tsAtRun, maintainCalls>>
  /\ UNCHANGED funVars

\* lines 86-93: the response has another status than 200, or requests.get
\* or response.json() raises
RespFailed ==
  /\ pc = "request"
  /\ CanFail
  /\ is_exception_or_too_many_request' = TRUE
  /\ actual_retries' = actual_retries + 1
  /\ pc' = "check"
  /\ NoteFailure
  /\ NoteAnswered
  /\ UNCHANGED <<index, batch, saveIdx, now, timestamp, last_timestamp, diskVars,
                 envVars, stops, inBulk, startCursor, trace, saveFailedAt, requested,
                 mOutcome, tsAtCall, tsReplaced>>
  /\ sleepKind' = "none"
  /\ UNCHANGED <<bulkCalls, bulkDone, idxReplaced, reqsAtCursor, tsAtRun, maintainCalls>>
  /\ UNCHANGED funVars

\* variant: the crawl stops as soon as the following page would be past the end
UpToDate_Early(startIndex, total) == startIndex + 2000 >= total

\* line 79: the response echoes the requested startIndex
UpToDate(startIndex, total) == startIndex >= total

\* lines 76-81: status 200 and startIndex >= totalResults, the loop breaks
\* and run continues at line 44
Resp200UpToDate ==
  /\ pc = "request"
  /\ UpToDate(index, totalResults)
  /\ pc' = "open_ts"
  /\ inBulk' = FALSE
  /\ NoteSuccess
  /\ NoteAnswered
  /\ UNCHANGED <<index, actual_retries, is_exception_or_too_many_request, batch,
                 saveIdx, now, timestamp, last_timestamp, diskVars, envVars, stops,
                 startCursor, trace, saveFailedAt, requested, mOutcome, tsAtCall,
                 tsReplaced>>
  /\ sleepKind' = "none"
  /\ bulkDone' = TRUE
  /\ UNCHANGED <<bulkCalls, idxReplaced, reqsAtCursor, tsAtRun, maintainCalls>>
  /\ UNCHANGED funVars

\* lines 76-82, 110-115: status 200 with a page of items, save_wrapper starts
Resp200Page ==
  /\ pc = "request"
  /\ ~UpToDate(index, totalResults)
  /\ batch' = PageItems(index)
  /\ saveIdx' = 0
  /\ pc' = "save"
  /\ NoteAnswered
  /\ UNCHANGED <<index, actual_retries, is_exception_or_too_many_request, now,
                 timestamp, last_timestamp, diskVars, envVars, stops, inBulk,
                 runCursor, runFails, clean, startCursor, trace, saveFailedAt,
                 requested, mOutcome, tsAtCall, tsReplaced>>
  /\ sleepKind' = "none"
  /\ UNCHANGED <<bulkCalls, bulkDone, idxReplaced, reqsAtCursor, tsAtRun, maintainCalls>>
  /\ UNCHANGED funVars

\* lines 116-120: save_wrapper persists the next item of the list
SaveItem ==
  /\ pc = "save"
  /\ saveIdx < Len(batch)
  /\ persisted' = save_data(persisted, batch[saveIdx + 1])
  /\ saveIdx' = saveIdx + 1
  /\ UNCHANGED <<pc, index, actual_retries, is_exception_or_too_many_request, batch,
                 now, timestamp, last_timestamp, indexFile, missingFile, tsFile,
                 envVars, histVars>>
  /\ UNCHANGED loopVars
  /\ UNCHANGED funVars

\* lines 183-184, 90-93: save_data raises RuntimeError, which the handler of
\* init_data_population catches
BulkSaveFail ==
  /\ pc = "save"
  /\ inBulk
  /\ saveIdx < Len(batch)
  /\ CanFail
  /\ is_exception_or_too_many_request' = TRUE
  /\ actual_retries' = actual_retries + 1
  /\ pc' = "check"
  /\ saveFailedAt' = index
  /\ NoteFailure
  /\ UNCHANGED <<index, batch, saveIdx, now, timestamp, last_timestamp, diskVars,
                 envVars, stops, inBulk, startCursor, trace, crashCursor,
                 firstRequest, requested, mOutcome, tsAtCall, tsReplaced>>
  /\ UNCHANGED loopVars
  /\ UNCHANGED funVars

\* variant: the cursor advances by one entry
NextIndex_One(i) == i + 1

\* lines 84, 100: index += entries_for_request
NextIndex(i) == i + E

\* variant: a saved page leaves the failure counter as it is
RetriesAfterSuccess_Keep(n) == n

\* line 85: the failure counter after a saved page
RetriesAfterSuccess(n) == 0

\* lines 83-85: save_wrapper returned, the cursor advances
BulkSaveDone ==
  /\ pc = "save"
  /\ inBulk
  /\ saveIdx = Len(batch)
  /\ index' = NextIndex(index)
  /\ actual_retries' = RetriesAfterSuccess(actual_retries)
  /\ pc' = "check"
  /\ NoteSuccess
  /\ UNCHANGED <<is_exception_or_too_many_request, batch, saveIdx, now, timestamp,
                 last_timestamp, diskVars, envVars, stops, inBulk, startCursor, trace,
                 saveFailedAt, crashCursor, firstRequest, requested,
                 mOutcome, tsAtCall, tsReplaced>>
  /\ UNCHANGED loopVars
  /\ UNCHANGED funVars

\* variant: the limit is compared with > instead of ==
LimitReached_Greater(n) == n > retries_for_request

\* variant: the limit is compared one failure late
LimitReached_Late(n) == n = retries_for_request + 1

\* line 94: the retry limit is reached
LimitReached(n) == n = retries_for_request

\* variant: the line is written after the cursor has advanced
MissingLine_After(i) == Str(i + EntriesForRequest(mode))

\* lines 96-97: the line appended to missing_indexes.txt
MissingLine(i) == Str(i)

\* lines 94-100: quarantine of the page after the retry limit
CheckRetries ==
  /\ pc = "check"
  /\ IF LimitReached(actual_retries)
     THEN /\ missingFile' = Append(missingFile, MissingLine(index))
          /\ actual_retries' = 0
          /\ index' = NextIndex(index)
     ELSE UNCHANGED <<missingFile, actual_retries, index>>
  /\ pc' = "sleep"
  /\ UNCHANGED <<is_exception_or_too_many_request, batch, saveIdx, now, timestamp,
                 last_timestamp, indexFile, tsFile, persisted, envVars, stops, inBulk,
                 runCursor, runFails, clean, startCursor, trace, saveFailedAt,
                 crashCursor, firstRequest, requested, mOutcome, tsAtCall,
                 tsReplaced>>
  /\ UNCHANGED loopVars
  /\ UNCHANGED funVars

\* variant: the short interval is slept whatever the iteration did
SleepInterval_Short(failed) == "short"

\* lines 101-107: retry_interval after a failed iteration, otherwise
\* interval_between_requests
SleepInterval(failed) == IF failed THEN "retry" ELSE "short"

\* lines 101-108: time.sleep(retry_interval or interval_between_requests)
Sleep ==
  /\ pc = "sleep"
  /\ pc' = "open_index"
  /\ UNCHANGED <<index, actual_retries, is_exception_or_too_many_request, batch,
                 saveIdx, now, timestamp, last_timestamp, diskVars, envVars,
                 histVars>>
  /\ sleepKind' = IF sleepKind = "none"
                  THEN SleepInterval(is_exception_or_too_many_request) ELSE "double"
  /\ UNCHANGED <<bulkCalls, bulkDone, idxReplaced, reqsAtCursor, tsAtRun, maintainCalls>>
  /\ UNCHANGED funVars

\* --------------------------------------------------------- run, lines 46-53
\* line 46: open(.last_timestamp.txt, 'w') truncates the file
OpenTs ==
  /\ pc = "open_ts"
  /\ tsReplaced' = IF tsFile.content # <<>> THEN tsFile.content ELSE tsReplaced
  /\ tsFile' = Truncated
  /\ pc' = "write_ts"
  /\ UNCHANGED <<index, actual_retries, is_exception_or_too_many_request, batch,
                 saveIdx, now, timestamp, last_timestamp, indexFile, missingFile,
                 persisted, envVars, stops, inBulk, runCursor, runFails, clean,
                 startCursor, trace, saveFailedAt, crashCursor, firstRequest,
                 requested, mOutcome, tsAtCall>>
  /\ UNCHANGED loopVars
  /\ UNCHANGED funVars

\* line 47: datetime.datetime.now() is read and written as the watermark
WriteTs ==
  /\ pc = "write_ts"
  /\ \E t \in clock..MaxTime :
       /\ clock' = t
       /\ tsFile' = FileWith(<<t>>)
  /\ pc' = "idle"
  /\ UNCHANGED <<index, actual_retries, is_exception_or_too_many_request, batch,
                 saveIdx, now, timestamp, last_timestamp, indexFile, missingFile,
                 persisted, mode, totalResults, histVars>>
  /\ UNCHANGED loopVars
  /\ UNCHANGED funVars

\* variant: maintain_data is called without the sleep before it
IdleSleep_NoSleep ==
  /\ pc = "idle"
  /\ pc' = "maintain"
  /\ UNCHANGED <<index, actual_retries, is_exception_or_too_many_request, batch,
                 saveIdx, now, timestamp, last_timestamp, diskVars, envVars,
                 histVars>>
  /\ sleepKind' = sleepKind
  /\ UNCHANGED <<bulkCalls, bulkDone, idxReplaced, reqsAtCursor, tsAtRun, maintainCalls>>
  /\ UNCHANGED funVars

\* lines 48-52: time.sleep(update_interval), then maintain_data is called
IdleSleep ==
  /\ pc = "idle"
  /\ pc' = "maintain"
  /\ UNCHANGED <<index, actual_retries, is_exception_or_too_many_request, batch,
                 saveIdx, now, timestamp, last_timestamp, diskVars, envVars,
                 histVars>>
  /\ sleepKind' = IF sleepKind = "none" THEN "update" ELSE "double"
  /\ UNCHANGED <<bulkCalls, bulkDone, idxReplaced, reqsAtCursor, tsAtRun, maintainCalls>>
  /\ UNCHANGED funVars

\* ------------------------------------------- maintain_data, lines 186-227
\* lines 187-203: now is read, the watermark is read (a missing file is
\* created with now and the call returns), the delta request is issued
MaintainStart ==
  /\ pc = "maintain"
  /\ \E t \in clock..MaxTime :
       /\ clock' = t
       /\ now' = t
       /\ IF ~tsFile.exists
          THEN /\ tsFile' = FileWith(<<t>>)
               /\ timestamp' = timestamp
               /\ pc' = "idle"
          ELSE /\ tsFile' = tsFile
               /\ timestamp' = tsFile.content
               /\ pc' = "m_request"
  /\ batch' = <<>>
  /\ saveIdx' = 0
  /\ mOutcome' = "none"
  /\ tsAtCall' = tsFile.content
  /\ UNCHANGED <<index, actual_retries, is_exception_or_too_many_request,
                 last_timestamp, indexFile, missingFile, persisted, mode,
                 totalResults, stops, inBulk, runCursor, runFails, clean, startCursor,
                 trace, saveFailedAt, crashCursor, firstRequest, requested,
                 tsReplaced>>
  /\ sleepKind' = "none"
  /\ maintainCalls' = Min(maintainCalls + 1, 2)
  /\ UNCHANGED <<bulkCalls, bulkDone, idxReplaced, reqsAtCursor, tsAtRun>>
  /\ UNCHANGED funVars

\* lines 223-225: the response has another status than 200
MRespNon200 ==
  /\ pc = "m_request"
  /\ pc' = "idle"
  /\ mOutcome' = "non200"
  /\ UNCHANGED <<index, actual_retries, is_exception_or_too_many_request, batch,
                 saveIdx, now, timestamp, last_timestamp, diskVars, envVars, stops,
                 inBulk, runCursor, runFails, clean, startCursor, trace, saveFailedAt, crashCursor, firstRequest, requested, tsAtCall,
                 tsReplaced>>
  /\ UNCHANGED loopVars
  /\ UNCHANGED funVars

\* lines 226-227: requests.get or response.json() raises
MRespException ==
  /\ pc = "m_request"
  /\ pc' = "idle"
  /\ mOutcome' = "exception"
  /\ UNCHANGED <<index, actual_retries, is_exception_or_too_many_request, batch,
                 saveIdx, now, timestamp, last_timestamp, diskVars, envVars, stops,
                 inBulk, runCursor, runFails, clean, startCursor, trace, saveFailedAt, crashCursor, firstRequest, requested, tsAtCall,
                 tsReplaced>>
  /\ UNCHANGED loopVars
  /\ UNCHANGED funVars

\* lines 204-210, 218-220: status 200 and an empty result list
MResp200Empty ==
  /\ pc = "m_request"
  /\ batch' = <<>>
  /\ last_timestamp' = <<now>>
  /\ pc' = "m_open_ts"
  /\ UNCHANGED <<index, actual_retries, is_exception_or_too_many_request, saveIdx,
                 now, timestamp, diskVars, envVars, histVars>>
  /\ UNCHANGED loopVars
  /\ UNCHANGED funVars

\* lines 204-216, 110-115: status 200 with items, save_wrapper starts
MResp200Items ==
  /\ pc = "m_request"
  /\ \E items \in DeltaResponses(mode, WindowStart(timestamp), now) :
       /\ batch' = items
       /\ last_timestamp' = LastTimestamp(mode, items)
  /\ saveIdx' = 0
  /\ pc' = "save"
  /\ UNCHANGED <<index, actual_retries, is_exception_or_too_many_request, now,
                 timestamp, diskVars, envVars, histVars>>
  /\ UNCHANGED loopVars
  /\ UNCHANGED funVars

\* variant: the watermark is written although persisting failed
MaintainSaveFail_Advance ==
  /\ pc = "save"
  /\ ~inBulk
  /\ saveIdx < Len(batch)
  /\ pc' = "idle"
  /\ mOutcome' = "save_failed"
  /\ tsFile' = FileWith(last_timestamp)
  /\ UNCHANGED <<index, actual_retries, is_exception_or_too_many_request, batch,
                 saveIdx, now, timestamp, last_timestamp, indexFile, missingFile,
                 persisted, envVars, stops, inBulk, runCursor, runFails, clean,
                 startCursor, trace, saveFailedAt, crashCursor, firstRequest,
                 requested, tsAtCall, tsReplaced>>
  /\ UNCHANGED loopVars
  /\ UNCHANGED funVars

\* lines 183-184, 226-227: save_data raises RuntimeError, which the handler
\* of maintain_data catches
MaintainSaveFail ==
  /\ pc = "save"
  /\ ~inBulk
  /\ saveIdx < Len(batch)
  /\ pc' = "idle"
  /\ mOutcome' = "save_failed"
  /\ UNCHANGED <<index, actual_retries, is_exception_or_too_many_request, batch,
                 saveIdx, now, timestamp, last_timestamp, diskVars, envVars, stops,
                 inBulk, runCursor, runFails, clean, startCursor, trace, saveFailedAt, crashCursor, firstRequest, requested, tsAtCall,
                 tsReplaced>>
  /\ UNCHANGED loopVars
  /\ UNCHANGED funVars

\* line 217: save_wrapper returned
MaintainSaveDone ==
  /\ pc = "save"
  /\ ~inBulk
  /\ saveIdx = Len(batch)
  /\ pc' = "m_open_ts"
  /\ UNCHANGED <<index, actual_retries, is_exception_or_too_many_request, batch,
                 saveIdx, now, timestamp, last_timestamp, diskVars, envVars,
                 histVars>>
  /\ UNCHANGED loopVars
  /\ UNCHANGED funVars

\* line 221: open(.last_timestamp.txt, 'w') truncates the file
MOpenTs ==
  /\ pc = "m_open_ts"
  /\ tsReplaced' = IF tsFile.content # <<>> THEN tsFile.content ELSE tsReplaced
  /\ tsFile' = Truncated
  /\ pc' = "m_write_ts"
  /\ UNCHANGED <<index, actual_retries, is_exception_or_too_many_request, batch,
                 saveIdx, now, timestamp, last_timestamp, indexFile, missingFile,
                 persisted, envVars, stops, inBulk, runCursor, runFails, clean,
                 startCursor, trace, saveFailedAt, crashCursor, firstRequest,
                 requested, mOutcome, tsAtCall>>
  /\ UNCHANGED loopVars
  /\ UNCHANGED funVars

\* line 222: last_timestamp is written and the file closed
MWriteTs ==
  /\ pc = "m_write_ts"
  /\ tsFile' = FileWith(last_timestamp)
  /\ pc' = "idle"
  /\ mOutcome' = "ok"
  /\ UNCHANGED <<index, actual_retries, is_exception_or_too_many_request, batch,
                 saveIdx, now, timestamp, last_timestamp, indexFile, missingFile,
                 persisted, envVars, stops, inBulk, runCursor, runFails, clean,
                 startCursor, trace, saveFailedAt, crashCursor, firstRequest,
                 requested, tsAtCall, tsReplaced>>
  /\ UNCHANGED loopVars
  /\ UNCHANGED funVars

\* ------------------------------------------------------------ environment
\* the process is stopped from outside: memory is lost, the files stay
Stop ==
  /\ pc # "stopped"
  /\ stops < MaxStops
  /\ pc' = "stopped"
  /\ index' = 0
  /\ actual_retries' = 0
  /\ is_exception_or_too_many_request' = FALSE
  /\ batch' = <<>>
  /\ saveIdx' = 0
  /\ now' = 0
  /\ timestamp' = <<>>
  /\ last_timestamp' = <<>>
  /\ stops' = stops + 1
  /\ inBulk' = FALSE
  /\ clean' = FALSE
  /\ runFails' = IF pc = "request" \/ (pc = "save" /\ inBulk) THEN 0 ELSE runFails
  /\ saveFailedAt' = -1
  /\ crashCursor' = IF pc = "request" THEN index ELSE -1
  /\ mOutcome' = "none"
  /\ UNCHANGED <<diskVars, envVars, runCursor, startCursor, trace, firstRequest,
                 requested, tsAtCall, tsReplaced>>
  /\ bulkCalls' = 0
  /\ bulkDone' = FALSE
  /\ sleepKind' = "none"
  /\ idxReplaced' = <<>>
  /\ reqsAtCursor' = 0
  /\ maintainCalls' = 0
  /\ UNCHANGED <<tsAtRun>>
  /\ UNCHANGED funVars

\* init_data_population with a remote source that can fail, and the stops
\* and restarts of the process
NextBulk ==
  \/ Run \/ OpenIndex \/ WriteIndex
  \/ RespFailed \/ Resp200UpToDate \/ Resp200Page
  \/ SaveItem \/ BulkSaveFail \/ BulkSaveDone \/ CheckRetries \/ Sleep
  \/ Stop

\* run and maintain_data, with a bulk catch-up that the remote source
\* answers with status 200 throughout
NextUpdate ==
  \/ Run \/ OpenIndex \/ WriteIndex
  \/ Resp200UpToDate \/ Resp200Page
  \/ SaveItem \/ BulkSaveDone \/ CheckRetries \/ Sleep
  \/ OpenTs \/ WriteTs \/ IdleSleep
  \/ MaintainStart \/ MRespNon200 \/ MRespException \/ MResp200Empty
  \/ MResp200Items \/ MaintainSaveFail \/ MaintainSaveDone \/ MOpenTs \/ MWriteTs
  \/ Stop

Next == NextBulk \/ NextUpdate

Spec == Init /\ [][Next]_vars

SpecBulk == Init /\ [][NextBulk]_vars

SpecUpdate == Init /\ [][NextUpdate]_vars

\* init_data_population of a process that is not stopped
NextCrawl ==
  \/ Run \/ OpenIndex \/ WriteIndex
  \/ RespFailed \/ Resp200UpToDate \/ Resp200Page
  \/ SaveItem \/ BulkSaveFail \/ BulkSaveDone \/ CheckRetries \/ Sleep

\* the process keeps taking steps while it is not stopped
SpecCrawl == Init /\ [][NextCrawl]_vars /\ WF_vars(NextCrawl)

\* ------------------------------------------- save_data, lines 174-184
\* variant: the record is appended in both modes
WriteRecord_Append(m, content, rec) == Append(content, rec)

\* lines 177-182: 'w' replaces the content of <ID>.json by the record, 'a'
\* adds one line to <ID>.jsonl
WriteRecord(m, content, rec) ==
  IF m = "info" THEN <<rec>> ELSE Append(content, rec)

\* the records with one identifier that the remote source can deliver
RecordVersions == 1..MaxVersions

\* lines 174-182: save_data is called with a record of the identifier
PersistRecord ==
  /\ Len(persistLog) < MaxPersists
  /\ \E rec \in RecordVersions :
       /\ recFile' = WriteRecord(mode, recFile, rec)
       /\ persistLog' = Append(persistLog, rec)
  /\ UNCHANGED <<mainVars, refVars, pathVars>>

NextStore == PersistRecord

SpecStore == Init /\ [][NextStore]_vars

\* --------------------------- get_cve_path_and_filename, lines 165-172
\* variant: the sequence number is written without padding
Pad_None(n) == Str(n)

\* line 169: '{:06d}'.format(n), zeros on the left up to PadWidth digits
RECURSIVE PadTo(_, _)
PadTo(q, w) == IF Len(q) >= w THEN q ELSE PadTo(<<0>> \o q, w)

Pad(n) == PadTo(Str(n), PadWidth)

\* lines 170-171: q[a:b] of Python, which stops at the end of q
Slice(q, a, b) == IF a >= Len(q) THEN <<>> ELSE SubSeq(q, a + 1, Min(b, Len(q)))

\* lines 167-172: the directory that is created and the file name
get_cve_path_and_filename(year, seq) ==
  LET cve_padded == Pad(ParseInt(seq))
  IN [dir |-> <<year, Slice(cve_padded, 0, 2), Slice(cve_padded, 2, 4)>>,
      name |-> <<year, cve_padded>>]

\* the digit strings of 1..MaxWidth digits over SeqDigits
SeqStrings == UNION {[1..w -> SeqDigits] : w \in 1..MaxWidth}

\* first resolution of an identifier <P>-<year>-<seq>
Resolve ==
  /\ pathPc = 0
  /\ \E y \in Years, q \in SeqStrings :
       /\ pathYear' = y
       /\ pathSeq' = q
       /\ path1' = get_cve_path_and_filename(y, q)
       /\ dirs' = dirs \cup {get_cve_path_and_filename(y, q).dir}
  /\ pathPc' = 1
  /\ UNCHANGED <<mainVars, storeVars, refVars, path2>>

\* second resolution of the same identifier, the directory exists
ResolveAgain ==
  /\ pathPc = 1
  /\ path2' = get_cve_path_and_filename(pathYear, pathSeq)
  /\ dirs' = dirs \cup {get_cve_path_and_filename(pathYear, pathSeq).dir}
  /\ pathPc' = 2
  /\ UNCHANGED <<mainVars, storeVars, refVars, pathYear, pathSeq, path1>>

NextPath == Resolve \/ ResolveAgain

SpecPath == Init /\ [][NextPath]_vars

\* ------------------ save_wrapper and fetch_and_add_references, 110-163
\* line 136: the keywords that make a content type textual
TextualKeywords == {"text", "json", "xml", "javascript", "x-www-form-urlencoded"}

\* Content-Type headers, each as the set of words it contains; {} is a
\* missing header (line 134 reads it as '')
ContentTypes == {{"text", "plain"}, {"application", "json"}, {"application", "pdf"}, {}}

\* lines 135-136
IsTextual(content_type) == content_type \cap TextualKeywords # {}

\* line 140
SizeLimit == 5 * 1024 * 1024

\* Content-Length headers: <<>> is a missing header
ContentLengths == {<<>>, <<100>>, <<SizeLimit>>, <<SizeLimit + 1>>}

\* the answers to requests.get(ref_url): the request raises, or a response
\* arrives with a status, headers and a body that can be read or not
Responses ==
  {[raised |-> TRUE, status |-> 0, ctype |-> {}, length |-> <<>>, bodyOk |-> FALSE]}
  \cup {[raised |-> FALSE, status |-> 404, ctype |-> {}, length |-> <<>>,
         bodyOk |-> FALSE]}
  \cup [raised : {FALSE}, status : {200}, ctype : ContentTypes,
        length : ContentLengths, bodyOk : BOOLEAN]

\* line 140: content_length and int(content_length) > 5 * 1024 * 1024
TooLarge(content_length) ==
  content_length # <<>> /\ content_length[1] > SizeLimit

\* the entries of read_references
ErrorEntry(url) == [url |-> url, kind |-> "error", n |-> 0, ext |-> "", code |-> 0]
StatusEntry(url, c) == [url |-> url, kind |-> "status", n |-> 0, ext |-> "", code |-> c]
TextEntry(url) == [url |-> url, kind |-> "text", n |-> 0, ext |-> "", code |-> 0]
FileEntry(url, n, ext) == [url |-> url, kind |-> "file", n |-> n, ext |-> ext, code |-> 0]

\* lines 130-159: the entry appended for one URL.  Line 138 raises for an
\* identifier that cannot be resolved and reading the body can raise; line
\* 158 turns both into the error marker.
RefEntry(url, resp, n, bad) ==
  IF resp.raised THEN ErrorEntry(url)
  ELSE IF resp.status # 200 THEN StatusEntry(url, resp.status)
  ELSE IF bad \/ ~resp.bodyOk THEN ErrorEntry(url)
  ELSE IF IsTextual(resp.ctype)
    THEN IF TooLarge(resp.length) THEN FileEntry(url, n, ".txt") ELSE TextEntry(url)
    ELSE FileEntry(url, n, "")

\* variant: the counter advances for every URL
NextRefId_Always(n, entry) == n + 1

\* lines 146 and 155: the counter advances when a side file was written
NextRefId(n, entry) == IF entry.kind = "file" THEN n + 1 ELSE n

\* lines 118-128: save_wrapper takes an item in info mode and its
\* reference list is read
StartArchive ==
  /\ refPc = "none"
  /\ mode = "info"
  /\ \E c \in 0..MaxRefs, bad \in BOOLEAN :
       /\ refCount' = c
       /\ badId' = bad
  /\ malformed' = FALSE
  /\ read_references' = <<>>
  /\ ext_ref_id' = 0
  /\ refPc' = "fetch"
  /\ UNCHANGED <<mainVars, storeVars, pathVars, responses, stored>>

\* variant: the exception of lines 125-126 leaves save_wrapper
ArchiveMalformed_Raise ==
  /\ refPc = "none"
  /\ mode = "info"
  /\ \E bad \in BOOLEAN : badId' = bad
  /\ malformed' = TRUE
  /\ refPc' = "raised"
  /\ UNCHANGED <<mainVars, storeVars, pathVars, refCount, read_references, ext_ref_id,
                 responses, stored>>

\* lines 125-126 raise (no reference list, or a reference without url):
\* lines 161-163 return the item as it was
ArchiveMalformed ==
  /\ refPc = "none"
  /\ mode = "info"
  /\ \E bad \in BOOLEAN : badId' = bad
  /\ malformed' = TRUE
  /\ refPc' = "save"
  /\ UNCHANGED <<mainVars, storeVars, pathVars, refCount, read_references, ext_ref_id,
                 responses, stored>>

\* lines 129-159: one iteration of the loop over the URLs
FetchRef ==
  /\ refPc = "fetch"
  /\ Len(read_references) < refCount
  /\ \E resp \in Responses :
       LET entry == RefEntry(Len(read_references) + 1, resp, ext_ref_id, badId)
       IN /\ read_references' = Append(read_references, entry)
          /\ ext_ref_id' = NextRefId(ext_ref_id, entry)
          /\ responses' = Append(responses, resp)
  /\ UNCHANGED <<mainVars, storeVars, pathVars, refPc, refCount, malformed, badId, stored>>

\* lines 160 and 163: the entries are attached and the item is returned
FinishArchive ==
  /\ refPc = "fetch"
  /\ Len(read_references) = refCount
  /\ refPc' = "save"
  /\ UNCHANGED <<mainVars, storeVars, pathVars, refCount, malformed, badId,
                 read_references, ext_ref_id, responses, stored>>

\* line 120, lines 174-179: save_data writes the item
SaveRecord ==
  /\ refPc = "save"
  /\ ~badId
  /\ stored' = [saved |-> TRUE, hasRefs |-> ~malformed,
                refs |-> IF malformed THEN <<>> ELSE read_references]
  /\ refPc' = "saved"
  /\ UNCHANGED <<mainVars, storeVars, pathVars, refCount, malformed, badId,
                 read_references, ext_ref_id, responses>>

\* line 120, lines 183-184: save_data raises RuntimeError
SaveRecordFail ==
  /\ refPc = "save"
  /\ refPc' = "save_failed"
  /\ UNCHANGED <<mainVars, storeVars, pathVars, refCount, malformed, badId,
                 read_references, ext_ref_id, responses, stored>>

NextRef ==
  \/ StartArchive
  \/ ArchiveMalformed
  \/ FetchRef
  \/ FinishArchive
  \/ SaveRecord
  \/ SaveRecordFail

SpecRef == Init /\ [][NextRef]_vars

TypeOK ==
  /\ mode \in Modes
  /\ index \in Nat
  /\ actual_retries \in Nat
  /\ saveIdx \in 0..Len(batch)
  /\ clock \in 0..MaxTime

\* ------------------------------------------------------------- properties
Range(q) == {q[i] : i \in 1..Len(q)}
Count(q, x) == Cardinality({i \in 1..Len(q) : q[i] = x})

\* .index.txt holds a complete cursor value
CursorPersisted == indexFile.exists /\ indexFile.content # <<>>
PersistedCursor == ParseInt(indexFile.content)

\* every item of the page at cursor c has its record file
PagePersisted(c) == \A k \in 1..ItemsPerPage : <<c, k>> \in persisted

MaintainFailures == {"non200", "exception", "save_failed"}

\* C1: while a bulk request with startIndex = c is in flight (first attempt
\* or retry), .index.txt holds c.
C1_CursorWrittenBeforeRequest ==
  pc = "request" => (CursorPersisted /\ PersistedCursor = index)

C1_Witness ==
  /\ pc = "request"
  /\ actual_retries > 0
  /\ index > 0
  /\ CursorPersisted /\ PersistedCursor = index

C3_PerPageCounter ==
  [][missingFile' # missingFile =>
       /\ runFails = retries_for_request
       /\ missingFile' = Append(missingFile, Str(runCursor))]_vars

C3_Witness ==
  /\ PagePersisted(0)
  /\ missingFile = <<Str(E)>>
  /\ runFails = retries_for_request
  /\ runCursor = E

\* C4 (as stated): with totalResults = 4500, page size 2000, start cursor 0
\* and no failure, the requests of the finished crawl are 0, 2000, 4000.
C4_ThreeRequests ==
  (pc = "open_ts" /\ clean /\ mode = "info" /\ totalResults = 4500 /\ startCursor = 0)
  => trace = <<0, 2000, 4000>>

\* C4 (amended): in that run the pages at 0, 2000 and 4000 are saved and the
\* crawl ends on a fourth request, startIndex = 6000, the first one whose
\* response has startIndex >= totalResults.
C4_ThreePagesFourRequests ==
  (pc = "open_ts" /\ clean /\ mode = "info" /\ totalResults = 4500 /\ startCursor = 0)
  => /\ trace = <<0, 2000, 4000, 6000>>
     /\ persisted = {<<c, k>> : c \in {0, 2000, 4000}, k \in 1..ItemsPerPage}
     /\ index = 6000
     /\ \A i \in 1..3 : ~UpToDate(trace[i], totalResults)
     /\ UpToDate(trace[4], totalResults)

C4_Witness ==
  /\ pc = "open_ts" /\ clean /\ mode = "info" /\ totalResults = 4500
  /\ startCursor = 0
  /\ Len(trace) = 4

\* C5: after a record of the page at cursor c has failed to persist, the
\* process does not request the page at c again.
C5_PersistFailureNotRetried ==
  pc = "request" => index # saveFailedAt

\* C6: the first bulk request after a restart has the startIndex of the
\* request that was in flight when the process was stopped.
C6_ResumeSameOffset ==
  (pc = "request" /\ firstRequest /\ crashCursor # -1) => index = crashCursor

C6_Witness ==
  /\ pc = "request" /\ firstRequest
  /\ crashCursor > 0
  /\ index = crashCursor

\* C7: every requested page offset below the persisted cursor is fully
\* persisted or listed in missing_indexes.txt, whatever steps, stops and
\* restarts have happened.
C7_NoSilentSkip ==
  \A c \in requested :
    (CursorPersisted /\ c < PersistedCursor)
    => (PagePersisted(c) \/ Str(c) \in Range(missingFile))

C7_Witness ==
  /\ stops > 0
  /\ pc = "request"
  /\ CursorPersisted
  /\ \E c \in requested : c < PersistedCursor /\ ~PagePersisted(c)
  /\ \E c \in requested : c < PersistedCursor /\ PagePersisted(c)

\* C8: a maintain_data call that failed has left .last_timestamp.txt as it
\* was when the call began, and the following call requests the window
\* that starts at the same watermark.
C8_FailureKeepsWatermark ==
  [][/\ mOutcome' \in MaintainFailures => tsFile'.content = tsAtCall'
     /\ (mOutcome \in MaintainFailures /\ pc = "maintain" /\ pc' = "m_request")
        => timestamp' = timestamp]_vars

C8_Witness ==
  /\ mOutcome = "save_failed"
  /\ saveIdx > 0
  /\ tsFile.content = tsAtCall
  /\ last_timestamp # tsAtCall

\* C9: after a successful maintain_data call the watermark is now when the
\* result was empty and the timestamp field of the last item otherwise; the
\* watermark file is opened only after every item has been persisted.
C9_WatermarkValue ==
  /\ mOutcome = "ok" =>
       tsFile.content =
         IF batch = <<>> THEN <<now>>
         ELSE IF mode = "info" THEN <<batch[Len(batch)].lastModified>>
         ELSE <<batch[Len(batch)].created>>
  /\ pc \in {"m_open_ts", "m_write_ts"} =>
       /\ saveIdx = Len(batch)
       /\ \A k \in 1..Len(batch) : batch[k].id \in persisted

C9_Witness ==
  /\ mOutcome = "ok"
  /\ Len(batch) = 2
  /\ tsFile.content # <<now>>
  /\ tsFile.content = <<0>>
  /\ now = 1

\* C10: a complete watermark written to .last_timestamp.txt is never
\* earlier than the complete watermark it replaced.
C10_WatermarkMonotone ==
  (tsFile.content # <<>> /\ tsReplaced # <<>>) => tsFile.content[1] >= tsReplaced[1]

C10_Witness ==
  /\ stops > 0
  /\ tsReplaced # <<>>
  /\ tsFile.content # <<>>
  /\ tsFile.content[1] > tsReplaced[1]

\* the positions of run after init_data_population has returned
InUpdate ==
  \/ pc \in {"open_ts", "write_ts", "idle", "maintain", "m_request", "m_open_ts",
             "m_write_ts"}
  \/ pc = "save" /\ ~inBulk

\* C11: the first delta request of a process that was started with a
\* watermark W in .last_timestamp.txt asks for the window that starts at W.
C11_ResumeFromWatermark ==
  (pc = "m_request" /\ maintainCalls = 1 /\ tsAtRun # <<>>) => timestamp = tsAtRun

\* C12: a process calls init_data_population once, no step of the update
\* loop happens before it has returned, every call of maintain_data comes
\* right after one sleep of update_interval, and once the loop is entered
\* the process leaves it only by being stopped.
C12_SchedulerOrder ==
  [][/\ pc' # "stopped" => bulkCalls' = 1
     /\ InUpdate' => bulkDone'
     /\ pc' = "maintain" => sleepKind' = "update"
     /\ (pc = "maintain" /\ pc' # "stopped") => sleepKind = "update"
     /\ (bulkDone /\ pc' # "stopped") => (bulkDone' /\ InUpdate')
     /\ (bulkDone /\ pc' = "stopped") => stops' = stops + 1]_vars

C12_Witness ==
  /\ pc = "maintain"
  /\ maintainCalls >= 1
  /\ sleepKind = "update"
  /\ bulkCalls = 1
  /\ bulkDone
  /\ stops > 0

\* C13: inside one call of init_data_population a step leaves the cursor
\* as it is or adds entriesPerPage to it, and a complete value written to
\* .index.txt is the value it replaces or that value plus entriesPerPage.
C13_CursorMonotone ==
  [][(inBulk /\ inBulk') =>
       /\ index' \in {index, index + E}
       /\ (indexFile'.content # <<>> /\ idxReplaced' # <<>>) =>
            ParseInt(indexFile'.content) \in
              {ParseInt(idxReplaced'), ParseInt(idxReplaced') + E}]_vars

C13_Witness ==
  /\ inBulk
  /\ idxReplaced # <<>>
  /\ CursorPersisted
  /\ PersistedCursor = ParseInt(idxReplaced) + E
  /\ missingFile # <<>>
  /\ PagePersisted(0)

\* C19: a bulk request that is not the first of its process is issued after
\* exactly one sleep: retry_interval when the previous iteration failed
\* (the quarantining iteration included), interval_between_requests
\* otherwise.
C19_OneSleepPerIteration ==
  (pc = "request" /\ ~firstRequest)
  => sleepKind = (IF runFails > 0 THEN "retry" ELSE "short")

C19_Witness ==
  /\ pc = "request" /\ ~firstRequest
  /\ sleepKind = "retry"
  /\ runFails = retries_for_request
  /\ index = runCursor + E

\* C20: a process that is not stopped issues at most retries_for_request
\* requests in a row with one startIndex, and when from some point on no
\* request fails, init_data_population returns.
C20_NoStall ==
  /\ [](reqsAtCursor <= retries_for_request)
  /\ (<>[][~RespFailed]_vars) => <>(pc = "open_ts")

C20_Witness ==
  /\ pc = "request"
  /\ reqsAtCursor = retries_for_request
  /\ index > 0

\* C14: in info mode the record file of an identifier holds exactly the
\* record of the last save_data call; in changes mode it holds one line per
\* call, in call order, so that no earlier line is rewritten or removed.
C14_OverwriteOrAppend ==
  IF mode = "info"
    THEN persistLog # <<>> => recFile = <<persistLog[Len(persistLog)]>>
    ELSE recFile = persistLog

C14_Witness ==
  /\ mode = "info"
  /\ Len(persistLog) = MaxPersists
  /\ persistLog[1] # persistLog[Len(persistLog)]
  /\ recFile = <<persistLog[Len(persistLog)]>>

\* C18 as stated: the sequence component of a resolved path has exactly
\* PadWidth digits, whatever the sequence number.
C18_ExactlySixDigits ==
  pathPc > 0 => Len(path1.name[2]) = PadWidth

\* C18: resolving an identifier twice gives the same path; the sequence
\* component is the sequence number padded with zeros on the left to PadWidth
\* digits, so it has PadWidth digits when the number has at most PadWidth
\* digits and the digits of the number, none removed, when it has more; the
\* directory is year / first two / next two digits of that component.
C18_PaddedAtLeastSix ==
  pathPc > 0 =>
    LET p == path1.name[2]
        n == ParseInt(pathSeq)
    IN /\ pathPc = 2 => path2 = path1
       /\ ParseInt(p) = n
       /\ Len(p) >= PadWidth
       /\ Len(Str(n)) <= PadWidth => Len(p) = PadWidth
       /\ Len(Str(n)) > PadWidth => p = Str(n)
       /\ path1.name[1] = pathYear
       /\ path1.dir = <<pathYear, SubSeq(p, 1, 2), SubSeq(p, 3, 4)>>
       /\ path1.dir \in dirs

C18_Witness ==
  /\ pathPc = 2
  /\ Len(pathSeq) = MaxWidth
  /\ pathSeq[1] = 0
  /\ ParseInt(pathSeq) > 0
  /\ Len(path1.name[2]) = PadWidth
  /\ path2 = path1

\* the entries of read_references that name a side file, in order
SideFiles == SelectSeq(read_references, LAMBDA e : e.kind = "file")

\* C15 as stated: a reference fetch answered 200 with a textual content
\* type and a known size is stored inline when the size is under SizeLimit
\* and in a side file <recordPath>-<n>.txt when it is SizeLimit or more.
C15_ThresholdInclusive ==
  \A k \in 1..Len(read_references) :
    LET resp == responses[k]
        e == read_references[k]
    IN (~resp.raised /\ resp.status = 200 /\ IsTextual(resp.ctype)
          /\ resp.length # <<>> /\ resp.bodyOk /\ ~badId)
       => IF resp.length[1] < SizeLimit
            THEN e.kind = "text"
            ELSE e.kind = "file" /\ e.ext = ".txt"

\* C16: archiving gives one entry per URL of the reference list, in list
\* order, whatever each fetch returned; the side-file counter starts at 0,
\* counts the side files written so far, and the side files of the record
\* are numbered 0, 1, 2, ... in order.
C16_OneEntryPerUrl ==
  /\ Len(read_references) <= refCount
  /\ Len(responses) = Len(read_references)
  /\ (refPc \in {"save", "saved", "save_failed"} /\ ~malformed)
       => Len(read_references) = refCount
  /\ \A k \in 1..Len(read_references) : read_references[k].url = k
  /\ \A j \in 1..Len(SideFiles) : SideFiles[j].n = j - 1
  /\ ext_ref_id = Len(SideFiles)

C16_Witness ==
  /\ refPc = "saved"
  /\ refCount = MaxRefs
  /\ read_references[1].kind = "error"
  /\ read_references[refCount].kind = "file"
  /\ read_references[refCount].n = 0
  /\ stored.refs = read_references

\* C17: archiving the references of an item always ends in the call of
\* save_data for the item: a fetch that fails adds a placeholder entry
\* (status code or error marker) and archiving goes on, an unreadable
\* reference list leads to the call with no archived references, and what
\* is saved is the item with the entries collected.
C17_ArchivingNeverBlocksSave ==
  [][/\ (refPc = "none" /\ refPc' # "none") => refPc' \in {"fetch", "save"}
     /\ (refPc = "fetch" /\ refPc' # "fetch") => refPc' = "save"
     /\ (refPc = "fetch" /\ refPc' = "fetch") =>
          LET resp == responses'[Len(responses')]
              e == read_references'[Len(read_references')]
          IN /\ Len(read_references') = Len(read_references) + 1
             /\ resp.raised => e.kind = "error"
             /\ (~resp.raised /\ resp.status # 200) =>
                  (e.kind = "status" /\ e.code = resp.status)
     /\ refPc' = "saved" =>
          stored' = [saved |-> TRUE, hasRefs |-> ~malformed',
                     refs |-> IF malformed' THEN <<>> ELSE read_references']]_vars

C17_Witness ==
  /\ refPc = "saved"
  /\ malformed
  /\ stored.saved
  /\ ~stored.hasRefs

====
